---- MODULE Spec2Model ----
(***************************************************************************)
(* Model of examples/sample-python/web_scraper.py: the WebScraper crawl    *)
(* (scrape_website, _scrape_recursive, scrape_page) running on the asyncio *)
(* event loop.                                                             *)
(*                                                                         *)
(* The simulated fetch of scrape_page (a sleep followed by a fixed HTML    *)
(* text) stands for the fetch and extraction collaborators: here the sleep *)
(* ends at an arbitrary time, the document delivered for a URL is any link *)
(* set over the URLs of the web being crawled, and the fetch may raise.    *)
(*                                                                         *)
(* Event loop: the ready queue is FIFO.  A task created by asyncio.gather  *)
(* is queued for its first step; a timer that fires queues the wake-up of  *)
(* the sleeping task; the completion of the last child of a gather queues  *)
(* the wake-up of the parent (the two call_soon hops of gather's done      *)
(* callback are one hop here: the intermediate hop changes no state).      *)
(* A timer may fire between any two steps (the loop fires due timers only  *)
(* between iterations, which allows fewer orders, never more).             *)
(***************************************************************************)
EXTENDS Integers, Sequences, FiniteSets, TLC

(***************************************************************************)
(* Bounds of the model.                                                    *)
(***************************************************************************)
\* most links a delivered document holds
MaxLinks == 2
\* largest max_depth a scraper is constructed with
MaxDepth == 5
\* most fetches that fail in one crawl
MaxFailures == 1
\* most URLs in one list given to check_links
MaxUrls == 3
\* most scrape_website calls on one scraper
MaxCalls == 2
\* most items in one list given to process_batch
MaxItems == 3
\* largest batch_size a DataProcessor is constructed with
MaxBatchSize == 2
\* most results the counter and the error list of a DataProcessor hold
MaxProcessed == 4
\* largest max_concurrent an AsyncDataProcessor is constructed with
MaxConcurrent == 2
\* most process_url tasks of one AsyncDataProcessor, over all its calls
MaxTasks == 3

(***************************************************************************)
(* URLs.  A URL string is kept as the parts urlparse splits it into; a URL  *)
(* written with a host has the scheme "http", a text with no host has no   *)
(* scheme either.                                                          *)
(***************************************************************************)
Url(n, p, f) ==
    [scheme |-> IF n = "" THEN "" ELSE "http", netloc |-> n, path |-> p, fragment |-> f]

\* URLValidator.is_valid_url: all([result.scheme, result.netloc])
is_valid_url(parts) == parts.scheme # "" /\ parts.netloc # ""

\* str.lower on the strings of the model
Lower(s) ==
    CASE s = "A" -> "a"
      [] s = "B" -> "b"
      [] s = "/X" -> "/x"
      [] OTHER -> s

\* URLValidator.normalize_url: the whole URL lowercased, fragment dropped
normalize_url(url) == Url(Lower(url.netloc), Lower(url.path), "")

\* a domain test that accepts every link
is_same_domain_any(url1, url2) == TRUE

\* URLValidator.is_same_domain: the netlocs compared as they are written
is_same_domain(url1, url2) == url1.netloc = url2.netloc

(***************************************************************************)
(* The webs a crawl runs on.  MainWeb and CaseWeb deliver any document of  *)
(* at most MaxLinks links for each URL (so MainWeb holds the page of the   *)
(* simulated fetch, which links to itself and to one other page of its     *)
(* host); DeepWeb delivers the documents of DeepSite.                      *)
(***************************************************************************)
Seed == Url("a", "/", "")

\* three URLs of the seed's host, one of them a fragment of another, and a
\* second host
MainWeb == {Seed, Url("a", "/x", ""), Url("a", "/x", "f"), Url("b", "/", "")}

\* the seed's host written in capitals
CaseWeb == {Seed, Url("A", "/x", ""), Url("a", "/x", "")}

\* two paths from the seed to /x, of two and of three links, and /y behind /x
DeepWeb == {Seed, Url("a", "/p", ""), Url("a", "/q", ""), Url("a", "/r", ""),
            Url("a", "/x", ""), Url("a", "/y", "")}
DeepSite ==
    (Seed :> {Url("a", "/p", ""), Url("a", "/q", "")}) @@
    (Url("a", "/p", "") :> {Url("a", "/x", "")}) @@
    (Url("a", "/q", "") :> {Url("a", "/r", "")}) @@
    (Url("a", "/r", "") :> {Url("a", "/x", "")}) @@
    (Url("a", "/x", "") :> {Url("a", "/y", "")}) @@
    (Url("a", "/y", "") :> {})

Worlds == {[web |-> MainWeb, site |-> <<>>],
           [web |-> CaseWeb, site |-> <<>>],
           [web |-> DeepWeb, site |-> DeepSite]}

\* a seed that is no URL: the text "not a url", which has no scheme and no host
BadSeed == Url("", "not a url", "")

\* the webs of FairSpec: every document over three URLs
SmallWeb == {Seed, Url("a", "/x", ""), Url("a", "/y", "")}
SmallWorlds == {[web |-> SmallWeb, site |-> <<>>]}

VARIABLES
    max_depth,          \* WebScraper.max_depth
    same_domain_only,   \* WebScraper.same_domain_only
    visited_urls,       \* WebScraper._visited_urls
    scraped_pages,      \* WebScraper._scraped_pages
    web,                \* the URLs of the web being crawled
    site,               \* the documents delivered so far: URL -> its links
    failed,             \* the URLs whose fetch raised
    branch,             \* the _scrape_recursive calls: url, depth, parent, pc
    ready,              \* the event loop's ready queue (branch ids)
    crawl,              \* scrape_website: "idle", "running", "returned", "raised"
    start_url,          \* the argument of scrape_website
    fetch_log,          \* the fetches issued, in order: url, depth, branch
    calls,              \* the scrape_website calls made on the scraper
    results,            \* LinkChecker._results
    chk,                \* check_links: "idle" or "running"
    chk_urls,           \* the argument of the running check_links
    chk_pc,             \* the check_link tasks: "created", "sleeping", "woken", "done"
    chk_out,            \* the status each check_link task returned
    chk_ready,          \* the event loop's ready queue (check_link task indices)
    last_batch,         \* the URLs of the last check_links that returned
    batch_size,         \* DataProcessor.batch_size
    processed_count,    \* DataProcessor._processed_count
    errors,             \* DataProcessor._errors
    max_concurrent,     \* AsyncDataProcessor.max_concurrent
    sem_value,          \* AsyncDataProcessor._semaphore._value
    sem_waiters,        \* AsyncDataProcessor._semaphore._waiters (task ids)
    ptask,              \* the process_url tasks: pc and result
    pready,             \* the event loop's ready queue (process_url task ids)
    pcall               \* the process_urls calls: their tasks, running or returned

\* the WebScraper and its crawl
svars == <<max_depth, same_domain_only, visited_urls, scraped_pages, web, site,
           failed, branch, ready, crawl, start_url, fetch_log, calls>>

\* the LinkChecker and its batch
cvars == <<results, chk, chk_urls, chk_pc, chk_out, chk_ready, last_batch>>

\* the DataProcessor
dvars == <<batch_size, processed_count, errors>>

\* the AsyncDataProcessor, its semaphore and its tasks
avars == <<max_concurrent, sem_value, sem_waiters, ptask, pready, pcall>>

pvars == <<dvars, avars>>

vars == <<svars, cvars, pvars>>

NoUrl == Url("", "", "")
Finished == {"returned", "raised"}

\* the scraper after __init__, before any call
InitScraper ==
    /\ max_depth \in -1..MaxDepth
    /\ same_domain_only \in BOOLEAN
    /\ visited_urls = {}
    /\ scraped_pages = <<>>
    /\ failed = {}
    /\ branch = <<>>
    /\ ready = <<>>
    /\ crawl = "idle"
    /\ start_url = NoUrl
    /\ fetch_log = <<>>
    /\ calls = 0

\* no batch has run: the value last_batch has before the first one
NoBatch == {<<>>}

\* the link checker after __init__, before any call
InitChecker ==
    /\ results = <<>>
    /\ chk = "idle"
    /\ chk_urls = <<>>
    /\ chk_pc = <<>>
    /\ chk_out = <<>>
    /\ chk_ready = <<>>
    /\ last_batch = NoBatch

\* DataProcessor() and AsyncDataProcessor() with the defaults of __init__
InitProcessors ==
    /\ batch_size = 100
    /\ processed_count = 0
    /\ errors = <<>>
    /\ max_concurrent = 10
    /\ sem_value = 10
    /\ sem_waiters = <<>>
    /\ ptask = <<>>
    /\ pready = <<>>
    /\ pcall = <<>>

Init ==
    /\ InitScraper
    /\ InitChecker
    /\ InitProcessors
    /\ \E w \in Worlds : web = w.web /\ site = w.site

InitSmall ==
    /\ InitScraper
    /\ InitChecker
    /\ InitProcessors
    /\ \E w \in SmallWorlds : web = w.web /\ site = w.site

(***************************************************************************)
(* The conditions of the code, one definition each.                        *)
(***************************************************************************)
\* the depth test one level late
DepthExceededLate(depth) == depth > max_depth + 1

\* _scrape_recursive: if depth > self.max_depth: return
DepthExceeded(depth) == depth > max_depth

\* the test of scrape_page left out
VisitedNotTested(url) == FALSE

\* scrape_page: if url in self._visited_urls: return None
Visited(url) == url \in visited_urls

\* the insertion of scrape_page left out
AddVisitedForgotten(url) == visited_urls

\* scrape_page: self._visited_urls.add(url)
AddVisited(url) == visited_urls \cup {url}

\* a failed fetch that gives its URL back, to be fetched again
ReleasedOnFailure(url) == visited_urls \ {url}

\* scrape_page: the URL added before the await is still in the set when the
\* fetch or the extraction raises (no handler removes it)
VisitedAfterFailure(url) == visited_urls

\* _scrape_recursive: the domain test of the loop over page.links
DomainDropped(url, link) == same_domain_only /\ ~is_same_domain(url, link)

\* _scrape_recursive: if link not in self._visited_urls
NotVisitedYet(link) == link \notin visited_urls

\* a gather that returns with the first child that ends
GatherFirstDone(br, p) ==
    \E c \in 1..Len(br) : br[c].parent = p /\ br[c].pc \in Finished

\* asyncio.gather(*tasks, return_exceptions=True): every child has ended
GatherDone(br, p) ==
    \A c \in 1..Len(br) : br[c].parent = p => br[c].pc \in Finished

\* a page that reports only the links admitted for fetching
PageLinksAdmitted(url, links) == {l \in links : ~DomainDropped(url, l)}

\* scrape_page: page.links = self.parser.extract_links(html, url)
PageLinks(url, links) == links

\* the documents the extractor may deliver: at most MaxLinks links
Documents == {ls \in SUBSET web : Cardinality(ls) <= MaxLinks}

\* the orders list(set(links)) may have
Orders(S) == {o \in [1..Cardinality(S) -> S] : \A i, j \in DOMAIN o : o[i] = o[j] => i = j}

(***************************************************************************)
(* A branch ends with `outcome`: its task is done.  The seed's branch runs *)
(* in the caller's task, so its end is the end of scrape_website; the end  *)
(* of the last child of a gather queues the parent.                        *)
(***************************************************************************)
Finish(b, outcome, br, rq) ==
    LET br1 == [br EXCEPT ![b].pc = outcome]
        p == br[b].parent
    IN  IF p = 0
        THEN /\ branch' = br1
             /\ ready' = rq
             /\ crawl' = outcome
        ELSE IF GatherDone(br1, p)
        THEN /\ branch' = [br1 EXCEPT ![p].pc = "joining"]
             /\ ready' = Append(rq, p)
             /\ crawl' = crawl
        ELSE /\ branch' = br1
             /\ ready' = rq
             /\ crawl' = crawl

\* scrape_page up to its await: claim the URL and issue the fetch
IssueFetch(b, url, depth) ==
    /\ visited_urls' = AddVisited(url)
    /\ fetch_log' = Append(fetch_log, [url |-> url, depth |-> depth, by |-> b])

(***************************************************************************)
(* scrape_website(start_url): the call runs _scrape_recursive(start_url,   *)
(* 0) in the caller's task up to its first suspension.                     *)
(***************************************************************************)
ScrapeWebsite(u) ==
    /\ crawl = "idle"
    /\ start_url' = u
    /\ IF DepthExceeded(0) \/ Visited(u)
       THEN /\ crawl' = "returned"
            /\ UNCHANGED <<visited_urls, fetch_log, branch>>
       ELSE /\ IssueFetch(1, u, 0)
            /\ branch' = <<[url |-> u, depth |-> 0, parent |-> 0, pc |-> "fetching"]>>
            /\ crawl' = "running"
    /\ calls' = calls + 1
    /\ UNCHANGED <<cvars, pvars, max_depth, same_domain_only, scraped_pages, web, site, failed, ready>>

\* asyncio.sleep of scrape_page ends: the task's wake-up is queued
TimerFire(b) ==
    /\ b \in 1..Len(branch)
    /\ branch[b].pc = "fetching"
    /\ branch' = [branch EXCEPT ![b].pc = "woken"]
    /\ ready' = Append(ready, b)
    /\ UNCHANGED <<cvars, pvars, calls, max_depth, same_domain_only, visited_urls, scraped_pages, web,
                   site, failed, crawl, start_url, fetch_log>>

\* first step of a child task: _scrape_recursive up to the await of the fetch
RunStart ==
    /\ ready # <<>>
    /\ LET b == Head(ready) IN
       /\ branch[b].pc = "created"
       /\ IF DepthExceeded(branch[b].depth) \/ Visited(branch[b].url)
          THEN /\ Finish(b, "returned", branch, Tail(ready))
               /\ UNCHANGED <<visited_urls, fetch_log>>
          ELSE /\ IssueFetch(b, branch[b].url, branch[b].depth)
               /\ branch' = [branch EXCEPT ![b].pc = "fetching"]
               /\ ready' = Tail(ready)
               /\ crawl' = crawl
    /\ UNCHANGED <<cvars, pvars, calls, max_depth, same_domain_only, scraped_pages, web, site, failed, start_url>>

\* the fetch or the extraction raises: the exception leaves _scrape_recursive
RunWakeRaise ==
    /\ ready # <<>>
    /\ LET b == Head(ready) IN
       /\ branch[b].pc = "woken"
       /\ branch[b].url \notin DOMAIN site
       /\ \/ branch[b].url \in failed
          \/ Cardinality(failed) < MaxFailures
       /\ failed' = failed \cup {branch[b].url}
       /\ visited_urls' = VisitedAfterFailure(branch[b].url)
       /\ Finish(b, "raised", branch, Tail(ready))
    /\ UNCHANGED <<cvars, pvars, calls, max_depth, same_domain_only, scraped_pages, web,
                   site, start_url, fetch_log>>

\* the fetch succeeds: the page is appended, the links are filtered and the
\* children are gathered
RunWakePage ==
    /\ ready # <<>>
    /\ LET b == Head(ready)
           url == branch[b].url
       IN
       /\ branch[b].pc = "woken"
       /\ url \notin failed
       /\ \E links \in (IF url \in DOMAIN site THEN {site[url]} ELSE Documents) :
            LET tasks == {l \in links : ~DomainDropped(url, l) /\ NotVisitedYet(l)}
                n == Len(branch)
            IN
            /\ site' = (url :> links) @@ site
            /\ scraped_pages' = Append(scraped_pages, [url |-> url, links |-> PageLinks(url, links)])
            /\ IF tasks = {}
               THEN Finish(b, "returned", branch, Tail(ready))
               ELSE \E o \in Orders(tasks) :
                      /\ branch' = [branch EXCEPT ![b].pc = "gathering"] \o
                                   [i \in 1..Cardinality(tasks) |->
                                      [url |-> o[i], depth |-> branch[b].depth + 1,
                                       parent |-> b, pc |-> "created"]]
                      /\ ready' = Tail(ready) \o [i \in 1..Cardinality(tasks) |-> n + i]
                      /\ crawl' = crawl
    /\ UNCHANGED <<cvars, pvars, calls, max_depth, same_domain_only, visited_urls, web, failed,
                   start_url, fetch_log>>

\* gather has every result: _scrape_recursive returns
RunJoin ==
    /\ ready # <<>>
    /\ LET b == Head(ready) IN
       /\ branch[b].pc = "joining"
       /\ Finish(b, "returned", branch, Tail(ready))
    /\ UNCHANGED <<cvars, pvars, calls, max_depth, same_domain_only, visited_urls, scraped_pages, web,
                   site, failed, start_url, fetch_log>>

Next ==
    \/ ScrapeWebsite(Seed)
    \/ \E b \in 1..Len(branch) : TimerFire(b)
    \/ RunStart
    \/ RunWakeRaise
    \/ RunWakePage
    \/ RunJoin

Spec == Init /\ [][Next]_vars

\* the event loop runs a queued step and a pending sleep ends
FairSpec == InitSmall /\ [][Next]_vars /\ WF_vars(Next)

(***************************************************************************)
(* get_statistics (the images of a page are not modelled, so neither is    *)
(* total_images_found).                                                    *)
(***************************************************************************)
RECURSIVE SumLinks(_)
\* sum(len(page.links) for page in pages)
SumLinks(pages) ==
    IF pages = <<>> THEN 0
    ELSE Cardinality(Head(pages).links) + SumLinks(Tail(pages))

\* links counted once over all pages
total_links_distinct ==
    Cardinality(UNION {scraped_pages[i].links : i \in DOMAIN scraped_pages})

\* get_statistics: total_links
total_links == SumLinks(scraped_pages)

get_statistics ==
    [pages_scraped |-> Len(scraped_pages),
     unique_urls_visited |-> Cardinality(visited_urls),
     total_links_found |-> total_links,
     average_links_per_page |->
        IF scraped_pages # <<>> THEN total_links \div Len(scraped_pages) ELSE 0]

\* scrape_website is also called with a seed that is not a valid URL
SeedNext ==
    \/ ScrapeWebsite(BadSeed)
    \/ Next

SeedSpec == InitSmall /\ [][SeedNext]_vars

(***************************************************************************)
(* A further scrape_website(u) on the same scraper, after the call before  *)
(* has ended: the tasks of that call are gone, the scraper's sets are as   *)
(* the call left them.                                                     *)
(***************************************************************************)
\* a call that starts with an empty page list
PagesCleared == <<>>

\* scrape_website: the call assigns nothing to self._scraped_pages
PagesAtCall == scraped_pages

ScrapeWebsiteAgain(u) ==
    /\ crawl \in Finished
    /\ calls < MaxCalls
    /\ start_url' = u
    /\ calls' = calls + 1
    /\ IF DepthExceeded(0) \/ Visited(u)
       THEN /\ crawl' = "returned"
            /\ branch' = <<>>
            /\ UNCHANGED <<visited_urls, fetch_log>>
       ELSE /\ IssueFetch(1, u, 0)
            /\ branch' = <<[url |-> u, depth |-> 0, parent |-> 0, pc |-> "fetching"]>>
            /\ crawl' = "running"
    /\ scraped_pages' = PagesAtCall
    /\ UNCHANGED <<cvars, pvars, max_depth, same_domain_only, web, site, failed, ready>>

AgainNext ==
    \/ Next
    \/ \E u \in web : ScrapeWebsiteAgain(u)

AgainSpec == InitSmall /\ [][AgainNext]_vars

(***************************************************************************)
(* The link checker.  Its URLs are texts, kept as the sequence of their    *)
(* pieces, so that the tests of check_link that read the text, "404" in    *)
(* url and "redirect" in url, and the split of urlparse are computed on    *)
(* the text.  A status is a text too.                                      *)
(***************************************************************************)
\* "http://x/404-test"
UrlNotFound == <<"http", ":", "//", "x", "/", "404", "-test">>
\* "http://x/ok"
UrlOk == <<"http", ":", "//", "x", "/", "ok">>
\* "http://x/redirect"
UrlRedirect == <<"http", ":", "//", "x", "/", "redirect">>
\* "not a url"
TextNoUrl == <<"not a url">>
\* "not a url 404"
TextNoUrl404 == <<"not a url ", "404">>

CheckUrls == {UrlNotFound, UrlOk, UrlRedirect, TextNoUrl, TextNoUrl404}

\* the lists check_links is called with, repetitions included
UrlLists == UNION {[1..n -> CheckUrls] : n \in 0..MaxUrls}

StatusNotFound == <<"404", " Not Found">>
StatusRedirect == <<"301", " Redirect">>
StatusInvalid == <<"Invalid", " URL">>
StatusOk == <<"200", " OK">>

\* a task of check_link that has not returned
NoStatus == <<>>

\* the operator in of str: word in text
Contains(text, word) == \E i \in DOMAIN text : text[i] = word

\* urlparse of a text: the scheme before ":", the host after "//"
urlparse(url) ==
    LET hasScheme == Len(url) >= 2 /\ url[2] = ":"
        rest == IF hasScheme THEN SubSeq(url, 3, Len(url)) ELSE url
        hasNetloc == Len(rest) >= 2 /\ rest[1] = "//"
    IN  [scheme |-> IF hasScheme THEN url[1] ELSE "",
         netloc |-> IF hasNetloc THEN rest[2] ELSE "",
         path |-> IF hasNetloc THEN SubSeq(rest, 3, Len(rest)) ELSE rest]

\* a check that takes a URL of the stored results as reachable
check_link_known(url) ==
    IF url \in DOMAIN results THEN StatusOk
    ELSE IF Contains(url, "404") THEN StatusNotFound
    ELSE IF Contains(url, "redirect") THEN StatusRedirect
    ELSE IF ~is_valid_url(urlparse(url)) THEN StatusInvalid
    ELSE StatusOk

\* check_link after its sleep: the status it returns for url
check_link(url) ==
    IF Contains(url, "404") THEN StatusNotFound
    ELSE IF Contains(url, "redirect") THEN StatusRedirect
    ELSE IF ~is_valid_url(urlparse(url)) THEN StatusInvalid
    ELSE StatusOk

\* a dict that keeps only the keys given once
DictOfSingles(urls, out) ==
    LET once == {u \in {urls[i] : i \in DOMAIN urls} :
                   Cardinality({i \in DOMAIN urls : urls[i] = u}) = 1}
    IN  [u \in once |-> out[CHOOSE i \in DOMAIN urls : urls[i] = u]]

\* dict(results) of the pairs (urls[i], out[i]): a later pair replaces an
\* earlier one of the same key
Dict(urls, out) ==
    [u \in {urls[i] : i \in DOMAIN urls} |->
        out[CHOOSE i \in DOMAIN urls :
              urls[i] = u /\ \A j \in DOMAIN urls : urls[j] = u => j <= i]]

\* results that are added to the stored ones
MergeResults(new) == new @@ results

\* check_links: self._results = dict(results)
StoreResults(new) == new

\* a check that stores its status as soon as it returns
ResultsWithCheck(i) == (chk_urls[i] :> check_link(chk_urls[i])) @@ results

\* check_link stores nothing: _results as one check returns
ResultsAfterCheck(i) == results

\* get_broken_links, as the set of its list
get_broken_links ==
    {url \in DOMAIN results :
        Contains(results[url], "404") \/ Contains(results[url], "Invalid")}

\* check_links(urls) up to its await: gather makes one task per URL, in the
\* order of the list; gather of no task is done at once, and check_links
\* stores the empty dict without a suspension
CheckLinks(urls) ==
    /\ chk = "idle"
    /\ IF urls = <<>>
       THEN /\ results' = StoreResults(Dict(urls, <<>>))
            /\ last_batch' = {}
            /\ UNCHANGED <<chk, chk_urls, chk_pc, chk_out, chk_ready>>
       ELSE /\ chk' = "running"
            /\ chk_urls' = urls
            /\ chk_pc' = [i \in DOMAIN urls |-> "created"]
            /\ chk_out' = [i \in DOMAIN urls |-> NoStatus]
            /\ chk_ready' = [i \in DOMAIN urls |-> i]
            /\ UNCHANGED <<results, last_batch>>
    /\ UNCHANGED <<svars, pvars>>

\* the event loop runs the first step of a task: check_link up to its sleep
ChkStart ==
    /\ chk_ready # <<>>
    /\ chk_pc[Head(chk_ready)] = "created"
    /\ chk_pc' = [chk_pc EXCEPT ![Head(chk_ready)] = "sleeping"]
    /\ chk_ready' = Tail(chk_ready)
    /\ UNCHANGED <<svars, pvars, results, chk, chk_urls, chk_out, last_batch>>

\* the sleep of task i ends (the checks end in any order); the loop looks
\* at its timers only after it has run the steps that were queued
ChkTimer(i) ==
    /\ chk_pc[i] = "sleeping"
    /\ \A j \in DOMAIN chk_pc : chk_pc[j] # "created"
    /\ chk_pc' = [chk_pc EXCEPT ![i] = "woken"]
    /\ chk_ready' = Append(chk_ready, i)
    /\ UNCHANGED <<svars, pvars, results, chk, chk_urls, chk_out, last_batch>>

\* the event loop resumes a task after its sleep: check_link returns
ChkWake ==
    /\ chk_ready # <<>>
    /\ chk_pc[Head(chk_ready)] = "woken"
    /\ chk_pc' = [chk_pc EXCEPT ![Head(chk_ready)] = "done"]
    /\ chk_out' = [chk_out EXCEPT ![Head(chk_ready)] =
                                   check_link(chk_urls[Head(chk_ready)])]
    /\ results' = ResultsAfterCheck(Head(chk_ready))
    /\ chk_ready' = Tail(chk_ready)
    /\ UNCHANGED <<svars, pvars, chk, chk_urls, last_batch>>

\* gather returns when every task has returned; check_links stores the dict
\* of the pairs and returns it
ChkJoin ==
    /\ chk = "running"
    /\ \A i \in DOMAIN chk_pc : chk_pc[i] = "done"
    /\ results' = StoreResults(Dict(chk_urls, chk_out))
    /\ last_batch' = {chk_urls[i] : i \in DOMAIN chk_urls}
    /\ chk' = "idle"
    /\ chk_urls' = <<>>
    /\ chk_pc' = <<>>
    /\ chk_out' = <<>>
    /\ chk_ready' = <<>>
    /\ UNCHANGED <<svars, pvars>>

\* main: WebScraper(max_depth=1) and LinkChecker() as constructed
InitMain ==
    /\ InitScraper
    /\ InitChecker
    /\ InitProcessors
    /\ max_depth = 1
    /\ same_domain_only
    /\ web = SmallWeb
    /\ site = <<>>

CheckerNext ==
    \/ \E urls \in UrlLists : CheckLinks(urls)
    \/ ChkStart
    \/ \E i \in DOMAIN chk_pc : ChkTimer(i)
    \/ ChkWake
    \/ ChkJoin

CheckerSpec == InitMain /\ [][CheckerNext]_vars

(***************************************************************************)
(* The scraper and the link checker of main, idle: the state of the        *)
(* specifications of the data processors, whose steps leave them alone.    *)
(***************************************************************************)
InitIdle ==
    /\ InitScraper
    /\ InitChecker
    /\ max_depth = 1
    /\ same_domain_only
    /\ web = SmallWeb
    /\ site = <<>>

(***************************************************************************)
(* DataProcessor.process_batch.  An item is the text that names it;        *)
(* processor_func, the caller's function, raises for the items of          *)
(* RaisingItems.                                                           *)
(***************************************************************************)
Items == {"item", "no key", "no value"}
RaisingItems == {"no key", "no value"}
ItemLists == UNION {[1..n -> Items] : n \in 0..MaxItems}

\* [items[k] for k in range(i, min(i + batch_size, len(items)))]
Slice(items, i, size) ==
    SubSeq(items, i, IF i + size - 1 <= Len(items) THEN i + size - 1 ELSE Len(items))

\* the body of the inner loop of process_batch: the try and its handler
ItemDone(st, item) ==
    IF item \in RaisingItems
    THEN [count |-> st.count,
          errs |-> Append(st.errs, [status |-> "failed", error |-> item]),
          results |-> Append(st.results, [status |-> "failed", error |-> item])]
    ELSE [count |-> st.count + 1,
          errs |-> st.errs,
          results |-> Append(st.results, [status |-> "completed", data |-> item])]

RECURSIVE BatchDone(_, _)
\* for item in batch
BatchDone(st, batch) ==
    IF batch = <<>> THEN st
    ELSE BatchDone(ItemDone(st, Head(batch)), Tail(batch))

RECURSIVE process_batch(_, _, _)
\* for i in range(0, len(items), self.batch_size), from the index i on
process_batch(st, items, i) ==
    IF i > Len(items) THEN st
    ELSE process_batch(BatchDone(st, Slice(items, i, batch_size)), items, i + batch_size)

\* DataProcessor.get_statistics; success_rate is kept as its fraction
processor_statistics ==
    [processed_count |-> processed_count,
     error_count |-> Len(errors),
     success_rate |->
        IF processed_count > 0
        THEN [num |-> processed_count - Len(errors), den |-> processed_count]
        ELSE [num |-> 0, den |-> 1]]

\* process_batch(items, processor_func)
ProcessBatch(items) ==
    LET st == process_batch([count |-> processed_count, errs |-> errors,
                             results |-> <<>>], items, 1)
    IN  /\ st.count <= MaxProcessed
        /\ Len(st.errs) <= MaxProcessed
        /\ processed_count' = st.count
        /\ errors' = st.errs
        /\ UNCHANGED <<svars, cvars, avars, batch_size>>

\* DataProcessor(batch_size) after __init__
InitBatch ==
    /\ InitIdle
    /\ batch_size \in 1..MaxBatchSize
    /\ processed_count = 0
    /\ errors = <<>>
    /\ max_concurrent = 10
    /\ sem_value = 10
    /\ sem_waiters = <<>>
    /\ ptask = <<>>
    /\ pready = <<>>
    /\ pcall = <<>>

BatchNext == \E items \in ItemLists : ProcessBatch(items)

BatchSpec == InitBatch /\ [][BatchNext]_vars

(***************************************************************************)
(* AsyncDataProcessor.  A process_url task is "created" by gather,         *)
(* "waiting" on the future acquire appended to the semaphore's waiters,    *)
(* "granted" when a release has set that future, "sleeping" and then       *)
(* "woken" inside the guarded section, and "done".  The semaphore is       *)
(* asyncio.Semaphore; no task is cancelled.                                *)
(***************************************************************************)
\* Semaphore.locked
locked == sem_value = 0 \/ sem_waiters # <<>>

\* the waiters whose future is not done, in the order of the deque
Pending(tasks) == SelectSeq(sem_waiters, LAMBDA t : tasks[t].pc = "waiting")

\* Semaphore._wake_up_next on the counter `value`: the first waiter whose
\* future is not done takes the slot and its task is queued
wake_up_next(value, tasks, rq) ==
    IF Pending(tasks) = <<>>
    THEN [value |-> value, tasks |-> tasks, rq |-> rq]
    ELSE [value |-> value - 1,
          tasks |-> [tasks EXCEPT ![Head(Pending(tasks))].pc = "granted"],
          rq |-> Append(rq, Head(Pending(tasks)))]

\* process_urls(urls) with n URLs, up to its await: gather makes one task
\* per URL; the call may overlap the calls before
ProcessUrls(n) ==
    /\ Len(ptask) + n <= MaxTasks
    /\ ptask' = ptask \o [i \in 1..n |-> [pc |-> "created", result |-> "none"]]
    /\ pready' = pready \o [i \in 1..n |-> Len(ptask) + i]
    /\ pcall' = Append(pcall, [first |-> Len(ptask) + 1, last |-> Len(ptask) + n,
                               pc |-> "running"])
    /\ UNCHANGED <<svars, cvars, dvars, max_concurrent, sem_value, sem_waiters>>

\* first step of a task: process_url enters async with, Semaphore.acquire
\* takes a slot or appends a future to the waiters
PStart ==
    /\ pready # <<>>
    /\ LET t == Head(pready) IN
       /\ ptask[t].pc = "created"
       /\ IF ~locked
          THEN /\ sem_value' = sem_value - 1
               /\ ptask' = [ptask EXCEPT ![t].pc = "sleeping"]
               /\ UNCHANGED sem_waiters
          ELSE /\ sem_waiters' = Append(sem_waiters, t)
               /\ ptask' = [ptask EXCEPT ![t].pc = "waiting"]
               /\ UNCHANGED sem_value
       /\ pready' = Tail(pready)
    /\ UNCHANGED <<svars, cvars, dvars, max_concurrent, pcall>>

\* a task resumes in acquire with its future set: the future leaves the
\* waiters, a slot that is free is passed on, and the task enters the
\* guarded section up to its sleep
PGranted ==
    /\ pready # <<>>
    /\ LET t == Head(pready)
           ws == SelectSeq(sem_waiters, LAMBDA w : w # t)
       IN
       /\ ptask[t].pc = "granted"
       /\ sem_waiters' = ws
       /\ LET tasks == [ptask EXCEPT ![t].pc = "sleeping"]
              w == IF sem_value > 0
                   THEN wake_up_next(sem_value, tasks, Tail(pready))
                   ELSE [value |-> sem_value, tasks |-> tasks, rq |-> Tail(pready)]
          IN  /\ sem_value' = w.value
              /\ ptask' = w.tasks
              /\ pready' = w.rq
    /\ UNCHANGED <<svars, cvars, dvars, max_concurrent, pcall>>

\* asyncio.sleep of process_url ends (the requests end in any order)
PTimer(t) ==
    /\ ptask[t].pc = "sleeping"
    /\ ptask' = [ptask EXCEPT ![t].pc = "woken"]
    /\ pready' = Append(pready, t)
    /\ UNCHANGED <<svars, cvars, dvars, max_concurrent, sem_value, sem_waiters, pcall>>

\* a task resumes after its sleep: the body returns its result, COMPLETED
\* or, from the handler of the try, FAILED; async with releases the slot
PWake ==
    /\ pready # <<>>
    /\ LET t == Head(pready) IN
       /\ ptask[t].pc = "woken"
       /\ \E r \in {"completed", "failed"} :
            LET tasks == [ptask EXCEPT ![t] = [pc |-> "done", result |-> r]]
                w == wake_up_next(sem_value + 1, tasks, Tail(pready))
            IN  /\ sem_value' = w.value
                /\ ptask' = w.tasks
                /\ pready' = w.rq
    /\ UNCHANGED <<svars, cvars, dvars, max_concurrent, sem_waiters, pcall>>

\* gather has every result: process_urls returns the list
PReturn(c) ==
    /\ pcall[c].pc = "running"
    /\ \A t \in pcall[c].first..pcall[c].last : ptask[t].pc = "done"
    /\ pcall' = [pcall EXCEPT ![c].pc = "returned"]
    /\ UNCHANGED <<svars, cvars, dvars, max_concurrent, sem_value, sem_waiters,
                   ptask, pready>>

\* AsyncDataProcessor(max_concurrent) after __init__
InitAsync ==
    /\ InitIdle
    /\ batch_size = 100
    /\ processed_count = 0
    /\ errors = <<>>
    /\ max_concurrent \in 0..MaxConcurrent
    /\ sem_value = max_concurrent
    /\ sem_waiters = <<>>
    /\ ptask = <<>>
    /\ pready = <<>>
    /\ pcall = <<>>

AsyncNext ==
    \/ \E n \in 1..MaxTasks : ProcessUrls(n)
    \/ PStart
    \/ PGranted
    \/ \E t \in DOMAIN ptask : PTimer(t)
    \/ PWake
    \/ \E c \in DOMAIN pcall : PReturn(c)

\* the event loop runs the steps it has queued and every sleep ends
AsyncSpec == InitAsync /\ [][AsyncNext]_vars /\ WF_vars(AsyncNext)

(***************************************************************************)
(* Vocabulary of the properties.                                           *)
(***************************************************************************)
PageUrls == {scraped_pages[i].url : i \in DOMAIN scraped_pages}
FetchedUrls == {fetch_log[i].url : i \in DOMAIN fetch_log}
Branches == 1..Len(branch)

\* the canonical form of a URL: lowercase host, no fragment
Canonical(url) == Url(Lower(url.netloc), url.path, "")

\* the host of a URL, which is written in any letter case
Host(url) == Lower(url.netloc)

\* the number of fetches issued for u
FetchCount(u) == Cardinality({i \in DOMAIN fetch_log : fetch_log[i].url = u})

\* the links of the delivered page of u that the domain filter lets through
Followed(u) ==
    IF u \in DOMAIN site THEN {l \in site[u] : ~DomainDropped(u, l)} ELSE {}

RECURSIVE Within(_)
\* the URLs at most d links from the seed
Within(d) ==
    IF d < 0 THEN {}
    ELSE IF d = 0 THEN {start_url}
    ELSE Within(d - 1) \cup UNION {Followed(u) : u \in Within(d - 1)}

\* the web where the seed links to /x and /x links back to the seed
CycleSite == (Seed :> {Url("a", "/x", "")}) @@ (Url("a", "/x", "") :> {Seed})

\* the crawl with max_depth 5 from the seed has met only documents of CycleSite
OnCycle ==
    /\ crawl \in {"running", "returned"}
    /\ max_depth = 5
    /\ start_url = Seed
    /\ failed = {}
    /\ \A u \in DOMAIN site : u \in DOMAIN CycleSite /\ site[u] = CycleSite[u]

(***************************************************************************)
(* C1: the visited test and the insertion are one step taken before the    *)
(* fetch is issued: every URL with a fetch in flight is in the visited     *)
(* set, and of the branches spawned for one URL (each passed the filter    *)
(* `link not in visited` when it was spawned) at most one issues a fetch.  *)
(***************************************************************************)
C1_ClaimThenFetch ==
    /\ \A i \in DOMAIN fetch_log : fetch_log[i].url \in visited_urls
    /\ \A i, j \in DOMAIN fetch_log : fetch_log[i].url = fetch_log[j].url => i = j
    /\ \A b, c \in Branches :
         (b # c /\ branch[b].url = branch[c].url
            /\ branch[b].pc \in {"fetching", "woken"})
         => branch[c].pc \in {"created", "returned"}

\* two branches were spawned for one URL while it was not visited; the first
\* fetched it and the second has returned without a fetch
C1_Witness ==
    \E b, c \in Branches :
       /\ b < c
       /\ branch[b].url = branch[c].url
       /\ branch[b].parent # branch[c].parent
       /\ branch[c].depth <= max_depth
       /\ branch[b].pc \in {"fetching", "woken"}
       /\ branch[c].pc = "returned"
       /\ FetchCount(branch[b].url) = 1

(***************************************************************************)
(* C2: in one crawl no two fetches have the same canonical URL, the        *)
(* canonical form being the URL with lowercase host and no fragment.       *)
(***************************************************************************)
C2_OneFetchPerCanonicalUrl ==
    \A i, j \in DOMAIN fetch_log :
       Canonical(fetch_log[i].url) = Canonical(fetch_log[j].url) => i = j

(***************************************************************************)
(* C3: the seed has depth 0 and a child the depth of the page that linked  *)
(* to it plus 1; no URL is claimed or fetched at a depth above max_depth,  *)
(* every page was fetched by a branch of depth at most max_depth whose     *)
(* chain of parents follows links back to the seed, and with max_depth 0   *)
(* only the seed is fetched.                                               *)
(***************************************************************************)
C3_DepthBound ==
    max_depth >= 0 =>
       /\ \A b \in Branches :
            IF branch[b].parent = 0
            THEN branch[b].depth = 0 /\ branch[b].url = start_url
            ELSE LET p == branch[b].parent IN
                 /\ p \in Branches
                 /\ branch[b].depth = branch[p].depth + 1
                 /\ branch[p].url \in DOMAIN site
                 /\ branch[b].url \in site[branch[p].url]
       /\ \A i \in DOMAIN fetch_log :
            /\ fetch_log[i].depth <= max_depth
            /\ fetch_log[i].depth = branch[fetch_log[i].by].depth
            /\ fetch_log[i].url = branch[fetch_log[i].by].url
       /\ visited_urls = FetchedUrls
       /\ PageUrls \subseteq FetchedUrls
       /\ max_depth = 0 => FetchedUrls \subseteq {start_url}

\* a branch one level below max_depth was spawned and has returned without
\* claiming its URL, after pages at depth max_depth >= 1 were produced
C3_Witness ==
    /\ max_depth >= 1
    /\ crawl = "returned"
    /\ \E b \in Branches :
         /\ branch[b].depth = max_depth + 1
         /\ branch[b].pc = "returned"
         /\ branch[b].url \notin visited_urls
         /\ branch[branch[b].parent].url \in PageUrls

(***************************************************************************)
(* C4: when the crawl has returned, the result holds a page for every      *)
(* fetchable URL within max_depth links of the seed, the links being those *)
(* that pass the domain filter.                                            *)
(***************************************************************************)
C4_AllWithinDepthScraped ==
    crawl = "returned" =>
       \A u \in Within(max_depth) : u \in failed \/ u \in PageUrls

(***************************************************************************)
(* C5: with same_domain_only every page of the result and every URL that   *)
(* was fetched has the host of the seed.                                   *)
(***************************************************************************)
C5_SameHostAsSeed ==
    same_domain_only =>
       /\ \A u \in FetchedUrls : Host(u) = Host(start_url)
       /\ \A u \in PageUrls : Host(u) = Host(start_url)

\* a page two links from the seed, whose links were compared with its own
\* URL, links to another host; the crawl has returned
C5_Witness ==
    /\ same_domain_only
    /\ crawl = "returned"
    /\ \E b \in Branches :
         /\ branch[b].depth = 2
         /\ branch[b].depth < max_depth
         /\ branch[b].url \in PageUrls
         /\ \E l \in site[branch[b].url] : Host(l) # Host(start_url)

(***************************************************************************)
(* C6: with same_domain_only the hosts are compared without regard to      *)
(* letter case: a link whose host is the seed's host in another case is    *)
(* followed (it is claimed when the depth allows), and no URL of another   *)
(* host is claimed.                                                        *)
(***************************************************************************)
C6_HostComparedWithoutCase ==
    (same_domain_only /\ crawl = "returned") =>
       /\ \A i \in DOMAIN fetch_log :
            (fetch_log[i].depth < max_depth /\ fetch_log[i].url \in PageUrls) =>
               \A l \in site[fetch_log[i].url] :
                  Host(l) = Host(start_url) => l \in visited_urls
       /\ \A u \in visited_urls : Host(u) = Host(start_url)

(***************************************************************************)
(* C7: a branch has ended only when every child it spawned has ended,      *)
(* with a page or with an exception; when scrape_website has ended no      *)
(* branch is running, no fetch is in flight and no step is queued.         *)
(***************************************************************************)
C7_FanIn ==
    /\ \A b, c \in Branches :
         (branch[c].parent = b /\ branch[b].pc \in Finished) => branch[c].pc \in Finished
    /\ crawl \in Finished =>
         /\ \A b \in Branches : branch[b].pc \in Finished
         /\ ready = <<>>

\* the crawl has returned; one parent had a child that raised and a child
\* that produced a page
C7_Witness ==
    /\ crawl = "returned"
    /\ \E b, c \in Branches :
         /\ b # c
         /\ branch[b].parent = branch[c].parent
         /\ branch[b].pc = "raised"
         /\ branch[c].pc = "returned"
         /\ branch[c].url \in PageUrls

(***************************************************************************)
(* C8: on every web of SmallWorlds, cycles included, scrape_website ends;  *)
(* on the web where the seed links to /x and /x links back to the seed,    *)
(* the crawl with max_depth 5 returns exactly the two pages.               *)
(***************************************************************************)
C8_CrawlTerminates ==
    /\ <>(crawl \in Finished)
    /\ [](OnCycle =>
            /\ PageUrls \subseteq {Seed, Url("a", "/x", "")}
            /\ Len(scraped_pages) = Cardinality(PageUrls)
            /\ crawl = "returned" => PageUrls = {Seed, Url("a", "/x", "")})

\* the crawl of the cycle has returned, after two fetches
C8_Witness ==
    /\ OnCycle
    /\ crawl = "returned"
    /\ site = CycleSite
    /\ Len(fetch_log) = 2

(***************************************************************************)
(* C9: a branch whose fetch or extraction failed has produced no page and  *)
(* spawned no child; its URL stays in the visited set and is fetched only  *)
(* once; the other branches go on, and when the crawl has ended every URL  *)
(* whose fetch did not fail has its page in the result.                    *)
(***************************************************************************)
C9_FailureAbsorbed ==
    /\ \A b \in Branches :
         branch[b].pc = "raised" =>
            /\ branch[b].url \in failed
            /\ \A c \in Branches : branch[c].parent # b
    /\ \A u \in failed :
         /\ u \in visited_urls
         /\ u \notin PageUrls
         /\ FetchCount(u) = 1
    /\ crawl \in Finished =>
         \A u \in FetchedUrls : u \in failed \/ u \in PageUrls

\* the fetch of a child failed; its sibling and a child of that sibling were
\* fetched and are in the result that the crawl returned
C9_Witness ==
    /\ crawl = "returned"
    /\ \E b, c, g \in Branches :
         /\ branch[b].pc = "raised"
         /\ branch[b].parent # 0
         /\ c # b
         /\ branch[c].parent = branch[b].parent
         /\ branch[g].parent = c
         /\ {branch[c].url, branch[g].url} \subseteq PageUrls
         /\ \E i \in DOMAIN fetch_log : fetch_log[i].by = g

(***************************************************************************)
(* C10: scrape_website never raises because the fetch of a branch failed,  *)
(* the seed's branch included.                                             *)
(***************************************************************************)
C10_NeverRaises == crawl # "raised"

(***************************************************************************)
(* C11: a call of scrape_website with a seed that has no scheme or no host *)
(* fails at once: it ends raised, no fetch is issued, the visited set      *)
(* stays empty and no page is produced.                                    *)
(***************************************************************************)
C11_InvalidSeedRejected ==
    (crawl # "idle" /\ ~is_valid_url(start_url)) =>
       /\ crawl = "raised"
       /\ fetch_log = <<>>
       /\ visited_urls = {}
       /\ scraped_pages = <<>>

(***************************************************************************)
(* C12: with a concurrency limit k at most k fetches are in flight in      *)
(* every state of a crawl; stated for the limit k = 1.                     *)
(***************************************************************************)
C12_InFlightWithinLimit ==
    LET k == 1 IN
    Cardinality({b \in Branches : branch[b].pc = "fetching"}) <= k

(***************************************************************************)
(* C18: get_statistics is defined in every state: total_links_found counts *)
(* every link of every page (a link of two pages twice),                   *)
(* average_links_per_page is the integer quotient of total_links_found by  *)
(* pages_scraped, and 0 when there is no page.                             *)
(***************************************************************************)
C18_Statistics ==
    LET s == get_statistics
        n == Len(scraped_pages)
        occurrences == UNION {{<<i, l>> : l \in scraped_pages[i].links} :
                                i \in DOMAIN scraped_pages}
    IN  /\ s.pages_scraped = n
        /\ s.total_links_found = Cardinality(occurrences)
        /\ n = 0 => s.average_links_per_page = 0
        /\ n > 0 =>
             /\ s.average_links_per_page * n <= s.total_links_found
             /\ s.total_links_found < (s.average_links_per_page + 1) * n

\* two pages hold three links, one of them on both pages: the average is 1
C18_Witness ==
    /\ Len(scraped_pages) = 2
    /\ get_statistics.total_links_found = 3
    /\ get_statistics.average_links_per_page = 1
    /\ scraped_pages[1].links \cap scraped_pages[2].links # {}

(***************************************************************************)
(* C19: a page reports every link of its document, also the links the      *)
(* crawl drops; a link dropped by the domain filter or by the depth limit  *)
(* is not fetched through that link; for the seed with a link to /x of its *)
(* host and a link to another host, same_domain_only and max_depth 1, the  *)
(* result is exactly the seed's page and the page of /x.                   *)
(***************************************************************************)
C19_DroppedLinksStayReported ==
    /\ \A i \in DOMAIN scraped_pages :
         /\ scraped_pages[i].url \in DOMAIN site
         /\ scraped_pages[i].links = site[scraped_pages[i].url]
    /\ \A i \in DOMAIN fetch_log :
         LET b == fetch_log[i].by IN
         /\ fetch_log[i].depth <= max_depth
         /\ FetchCount(fetch_log[i].url) = 1
         /\ branch[b].parent # 0 =>
              ~DomainDropped(branch[branch[b].parent].url, fetch_log[i].url)
    /\ (/\ crawl = "returned"
        /\ same_domain_only
        /\ max_depth = 1
        /\ failed = {}
        /\ Seed \in DOMAIN site
        /\ site[Seed] = {Url("a", "/x", ""), Url("b", "/", "")})
       => /\ Len(scraped_pages) = 2
          /\ PageUrls = {Seed, Url("a", "/x", "")}
          /\ Url("b", "/", "") \in scraped_pages[1].links
          /\ Url("b", "/", "") \notin FetchedUrls

\* the crawl of that seed has returned; the page of /x links to a page that
\* is beyond max_depth, which was not fetched
C19_Witness ==
    /\ crawl = "returned"
    /\ same_domain_only
    /\ max_depth = 1
    /\ failed = {}
    /\ Seed \in DOMAIN site
    /\ site[Seed] = {Url("a", "/x", ""), Url("b", "/", "")}
    /\ Url("a", "/x", "") \in DOMAIN site
    /\ Url("a", "/x", "f") \in site[Url("a", "/x", "")]
    /\ Url("a", "/x", "f") \notin FetchedUrls

(***************************************************************************)
(* C20: no step removes a URL from the visited set, and every URL for      *)
(* which a fetch was issued is in it, whether the fetch is in flight, has  *)
(* delivered its page or has failed.                                       *)
(***************************************************************************)
C20_VisitedOnlyGrows ==
    /\ [][visited_urls \subseteq visited_urls']_vars
    /\ [](FetchedUrls \subseteq visited_urls)

\* one URL's fetch has failed, another's is in flight; both are in the set
C20_Witness ==
    /\ failed # {}
    /\ failed \subseteq visited_urls
    /\ \E b \in Branches :
         /\ branch[b].pc = "fetching"
         /\ branch[b].url \in visited_urls
         /\ branch[b].url \notin failed

(***************************************************************************)
(* C13: the link checker gives a text that is no valid URL the status      *)
(* "Invalid URL" whatever the text holds, and starts no network check for  *)
(* it: its task is never in the sleep that stands for the check.           *)
(***************************************************************************)
C13_InvalidBeforeAnyCheck ==
    /\ \A i \in DOMAIN chk_urls :
         ~is_valid_url(urlparse(chk_urls[i])) =>
            /\ chk_pc[i] \notin {"sleeping", "woken"}
            /\ chk_pc[i] = "done" => chk_out[i] = StatusInvalid
    /\ \A url \in DOMAIN results :
         ~is_valid_url(urlparse(url)) => results[url] = StatusInvalid

(***************************************************************************)
(* C14: the mapping check_links returns has the distinct URLs of its list  *)
(* as keys and one of the four statuses for each; the list                 *)
(* "http://x/404-test", "http://x/ok", "not a url" gives "404 Not Found",  *)
(* "200 OK" and "Invalid URL".                                             *)
(***************************************************************************)
C14_KeysAndStatuses ==
    last_batch # NoBatch =>
       /\ DOMAIN results = last_batch
       /\ \A url \in DOMAIN results :
            results[url] \in {StatusOk, StatusNotFound, StatusRedirect, StatusInvalid}
       /\ last_batch = {UrlNotFound, UrlOk, TextNoUrl} =>
            /\ results[UrlNotFound] = StatusNotFound
            /\ results[UrlOk] = StatusOk
            /\ results[TextNoUrl] = StatusInvalid

\* the list of the example has been checked
C14_Witness ==
    /\ chk = "idle"
    /\ last_batch = {UrlNotFound, UrlOk, TextNoUrl}
    /\ results = (UrlNotFound :> StatusNotFound) @@ (UrlOk :> StatusOk) @@
                 (TextNoUrl :> StatusInvalid)

(***************************************************************************)
(* C15: the stored results change in one step only, the step in which      *)
(* check_links returns after every check of its list has returned; they    *)
(* are then the statuses the checks returned.  Until that step they are    *)
(* the results of the list before, in whatever order the checks return.    *)
(***************************************************************************)
C15_ResultsReplacedAtOnce ==
    /\ [][results' # results =>
            /\ chk' = "idle"
            /\ last_batch' = DOMAIN results'
            /\ chk = "running" =>
                 /\ \A i \in DOMAIN chk_pc : chk_pc[i] = "done"
                 /\ \A i \in DOMAIN chk_urls : results'[chk_urls[i]] = chk_out[i]]_vars
    /\ [](DOMAIN results = IF last_batch = NoBatch THEN {} ELSE last_batch)

\* the second check of a list has returned before the first, the third is
\* asleep, and the stored results are those of the list before
C15_Witness ==
    /\ chk = "running"
    /\ Len(chk_urls) = 3
    /\ chk_pc[1] = "woken"
    /\ chk_pc[2] = "done"
    /\ chk_pc[3] = "sleeping"
    /\ last_batch # NoBatch
    /\ chk_urls[2] \notin DOMAIN results
    /\ results # <<>>

(***************************************************************************)
(* C16: get_broken_links gives the URLs of the last list check_links has   *)
(* returned for whose status is "404 Not Found" or "Invalid URL", and      *)
(* nothing before the first list.                                          *)
(***************************************************************************)
C16_BrokenLinksOfLastBatch ==
    get_broken_links =
       IF last_batch = NoBatch THEN {}
       ELSE {url \in last_batch : results[url] \in {StatusNotFound, StatusInvalid}}

\* a list is being checked after a list with a broken and a sound link, and
\* none of the URLs of the first is in the second
C16_Witness ==
    /\ chk = "running"
    /\ last_batch = {UrlNotFound, UrlOk}
    /\ get_broken_links = {UrlNotFound}
    /\ \A i \in DOMAIN chk_urls : chk_urls[i] \notin last_batch
    /\ \E i \in DOMAIN chk_urls : chk_out[i] = StatusInvalid

(***************************************************************************)
(* C17: a URL checked again gets the status it had: when check_links       *)
(* returns, every URL that was in the stored results keeps its status, and *)
(* a list with the URLs of the list before gives the same results.         *)
(***************************************************************************)
C17_CheckLinksIdempotent ==
    [][/\ \A url \in DOMAIN results \cap DOMAIN results' :
            results'[url] = results[url]
       /\ (chk = "running" /\ chk' = "idle" /\ last_batch' = last_batch)
            => results' = results]_vars

\* every check of a list has returned and the list has the URLs of the list
\* before, of more than one status
C17_Witness ==
    /\ chk = "running"
    /\ \A i \in DOMAIN chk_pc : chk_pc[i] = "done"
    /\ {chk_urls[i] : i \in DOMAIN chk_urls} = last_batch
    /\ Cardinality({results[url] : url \in DOMAIN results}) >= 2

(***************************************************************************)
(* C21: in every state, fetches in flight or not, every page of the page   *)
(* list has a URL of the visited set and no two pages have the same URL,   *)
(* so pages_scraped <= unique_urls_visited; the two are equal when a crawl *)
(* in which no fetch failed has returned.                                  *)
(***************************************************************************)
C21_PagesAmongVisited ==
    /\ PageUrls \subseteq visited_urls
    /\ \A i, j \in DOMAIN scraped_pages :
         scraped_pages[i].url = scraped_pages[j].url => i = j
    /\ get_statistics.pages_scraped <= get_statistics.unique_urls_visited
    /\ (crawl = "returned" /\ failed = {}) =>
          get_statistics.pages_scraped = get_statistics.unique_urls_visited

\* a page is in the list while two claimed URLs are still being fetched
C21_Witness ==
    /\ crawl = "running"
    /\ scraped_pages # <<>>
    /\ Cardinality({b \in Branches : branch[b].pc = "fetching"}) = 2
    /\ get_statistics.pages_scraped + 2 = get_statistics.unique_urls_visited

(***************************************************************************)
(* C23: with a negative max_depth scrape_website returns without an error  *)
(* and without a fetch: the seed is not claimed, and no step changes the   *)
(* visited set or the page list.                                           *)
(***************************************************************************)
C23_NegativeDepthFetchesNothing ==
    /\ [](max_depth < 0 =>
            /\ crawl \in {"idle", "returned"}
            /\ fetch_log = <<>>
            /\ start_url \notin visited_urls)
    /\ [][max_depth < 0 =>
            /\ visited_urls' = visited_urls
            /\ scraped_pages' = scraped_pages]_vars

\* the call on a scraper of negative max_depth has returned
C23_Witness ==
    /\ max_depth < 0
    /\ crawl = "returned"
    /\ start_url = Seed
    /\ branch = <<>>

(***************************************************************************)
(* C22: the scraper keeps its visited set and its page list from one       *)
(* scrape_website call to the next: a fetch is only ever issued for a URL  *)
(* that no call has claimed, a call whose seed is claimed already returns  *)
(* with no fetch, and every page of the list stays in it, at its place.    *)
(***************************************************************************)
C22_StateKeptAcrossCalls ==
    /\ [][fetch_log' # fetch_log =>
            /\ Len(fetch_log') = Len(fetch_log) + 1
            /\ SubSeq(fetch_log', 1, Len(fetch_log)) = fetch_log
            /\ fetch_log'[Len(fetch_log')].url \notin visited_urls]_vars
    /\ [][(calls' = calls + 1 /\ start_url' \in visited_urls) =>
            /\ crawl' = "returned"
            /\ fetch_log' = fetch_log
            /\ visited_urls' = visited_urls
            /\ scraped_pages' = scraped_pages]_vars
    /\ [][/\ Len(scraped_pages') >= Len(scraped_pages)
          /\ SubSeq(scraped_pages', 1, Len(scraped_pages)) = scraped_pages]_vars

\* the second call, with the seed of the first, has returned: the page of
\* the seed is in the list and no fetch was issued for the seed again
C22_Witness ==
    /\ calls = 2
    /\ start_url = Seed
    /\ crawl = "returned"
    /\ branch = <<>>
    /\ Seed \in PageUrls
    /\ Len(scraped_pages) >= 2
    /\ FetchCount(Seed) = 1

(***************************************************************************)
(* C25: after any process_batch calls the success_rate of get_statistics   *)
(* is a fraction between 0 and 1: its numerator, processed_count less      *)
(* error_count, is not negative and not above its denominator.             *)
(***************************************************************************)
C25_SuccessRateIsFraction ==
    LET rate == processor_statistics.success_rate IN
    /\ rate.den > 0
    /\ 0 <= rate.num
    /\ rate.num <= rate.den

(***************************************************************************)
(* C24: with max_concurrent = k, whatever the interleaving of the tasks of *)
(* one or of several overlapping process_urls calls, at most k process_url *)
(* calls are inside the guarded section, every slot taken is given back    *)
(* (the free slots and the slots held make k), and every process_url call  *)
(* and every process_urls call ends.                                       *)
(***************************************************************************)
C24_SemaphoreBoundsAndCompletes ==
    /\ [](Cardinality({t \in DOMAIN ptask : ptask[t].pc \in {"sleeping", "woken"}})
            <= max_concurrent)
    /\ [](sem_value >= 0 /\
          sem_value + Cardinality({t \in DOMAIN ptask :
                                     ptask[t].pc \in {"granted", "sleeping", "woken"}})
            = max_concurrent)
    /\ \A t \in 1..MaxTasks :
          (t \in DOMAIN ptask) ~> (t \in DOMAIN ptask /\ ptask[t].pc = "done")
    /\ \A c \in 1..MaxTasks :
          (c \in DOMAIN pcall) ~> (c \in DOMAIN pcall /\ pcall[c].pc = "returned")

====
